---- MODULE Spec2Model ----
(***************************************************************************)
(* Model of quickselect.py: partition, quickselect and median, driven by a *)
(* caller that owns a list and calls one of the three functions.           *)
(*                                                                         *)
(* Python indices are zero-based; buffers are TLA+ sequences read and      *)
(* written through At/Swap, which shift by one.  Buffers are objects of a  *)
(* small heap so that aliasing (q = l) and copying (list(data), deque(l))  *)
(* are different things.                                                   *)
(***************************************************************************)
EXTENDS Integers, Sequences, FiniteSets

VARIABLES heap, saved, mode, pc, data, q, left, right, k, callNo, first,
          retval, result, outcome, prev, entry, depth, part, qsCalls,
          partCalls

vars == <<heap, saved, mode, pc, data, q, left, right, k, callNo, first,
          retval, result, outcome, prev, entry, depth, part, qsCalls,
          partCalls>>

\* Longest list the caller owns.
MaxLen == 4
\* Element values are 1..MaxVal.
MaxVal == 3
\* Longest list of the runs that check termination of quickselect.
MaxSelectLen == 3

Values == 1..MaxVal

RECURSIVE SeqsOfLen(_)
SeqsOfLen(n) ==
    IF n = 0 THEN {<<>>}
    ELSE {Append(s, v) : s \in SeqsOfLen(n - 1), v \in Values}

Lists == UNION {SeqsOfLen(n) : n \in 0..MaxLen}

None == "None"
NoPart == [before |-> <<>>, after |-> <<>>, left |-> 0, right |-> 0,
           pivot_index |-> 0, ret |-> 0]
NoEntry == [q |-> <<>>, left |-> 0, right |-> 0, k |-> 0]

----------------------------------------------------------------------------
\* Reference notions used to state the claims (not part of the program).

RECURSIVE Insert(_, _)
Insert(s, v) ==
    IF s = <<>> THEN <<v>>
    ELSE IF v <= Head(s) THEN <<v>> \o s
    ELSE <<Head(s)>> \o Insert(Tail(s), v)

RECURSIVE Sorted(_)
Sorted(s) == IF s = <<>> THEN <<>> ELSE Insert(Sorted(Tail(s)), Head(s))

Count(s, v) == Cardinality({i \in 1..Len(s) : s[i] = v})
SameElements(s, t) ==
    /\ Len(s) = Len(t)
    /\ \A v \in Values : Count(s, v) = Count(t, v)

Shuffles(s) == {t \in SeqsOfLen(Len(s)) : SameElements(s, t)}

\* s[lo..hi] with zero-based inclusive bounds.
Slice(s, lo, hi) == SubSeq(s, lo + 1, hi + 1)

----------------------------------------------------------------------------
\* Zero-based indexing q[i] and the tuple-assignment swap
\* q[i], q[j] = q[j], q[i].
At(s, i) == s[i + 1]

Swap(s, i, j) ==
    [x \in 1..Len(s) |->
        IF x = i + 1 THEN s[j + 1]
        ELSE IF x = j + 1 THEN s[i + 1]
        ELSE s[x]]

\* Numbers as fractions <<numerator, denominator>> in lowest terms.
Num(v) == <<v, 1>>
\* A variant that computes a + b / 2.
HalfSumPrecedence(a, b) ==
    IF b % 2 = 0 THEN <<a + (b \div 2), 1>> ELSE <<(2 * a) + b, 2>>

\* (a + b) / 2 with true division.
HalfSum(a, b) ==
    IF (a + b) % 2 = 0 THEN <<(a + b) \div 2, 1>> ELSE <<a + b, 2>>

\* The for loop of partition: i is enumerate's counter (from 0), value is
\* the lazily read q[j] for j = left + i.
RECURSIVE PartitionLoop(_, _, _, _, _, _)
PartitionLoop(s, l, r, pivot_value, store_index, i) ==
    IF i >= r - l THEN [q |-> s, store_index |-> store_index]
    ELSE IF At(s, l + i) < pivot_value
         THEN PartitionLoop(Swap(s, store_index, i), l, r, pivot_value,
                            store_index + 1, i + 1)
         ELSE PartitionLoop(s, l, r, pivot_value, store_index, i + 1)

\* partition(q, left, right, pivot_index): the buffer afterwards and the
\* returned store_index.
Partition(s, l, r, pivot_index) ==
    LET pivot_value == At(s, pivot_index)
        s1 == Swap(s, pivot_index, r)
        lp == PartitionLoop(s1, l, r, pivot_value, l, 0)
    IN  [q |-> Swap(lp.q, r, lp.store_index), ret |-> lp.store_index]

----------------------------------------------------------------------------
\* Objects.  "caller" is the list the caller owns, "list" the list made by
\* list(data) in median, "deque" the deque made by deque(l) in quickselect.

\* A variant that hands back the argument itself instead of a new object.
ConstructAlias(kind, src) == src

\* A constructor call list(src) / deque(src): a new object of that kind.
Construct(kind, src) == kind

\* The new object holds the elements of src, in order.
CopyInto(h, dst, src) == [h EXCEPT ![dst] = h[src]]

\* isinstance(l, deque)
IsDeque(l) == l = "deque"

\* A variant that recurses into the half that does not hold k.
NextRangeWrongSide(l, r, kk, pivot_index) ==
    IF kk > pivot_index THEN <<l, pivot_index - 1>>
    ELSE <<pivot_index + 1, r>>

\* A variant that keeps the pivot position in the range it recurses into.
NextRangeKeepsPivot(l, r, kk, pivot_index) ==
    IF kk < pivot_index THEN <<l, pivot_index>>
    ELSE <<pivot_index, r>>

\* A variant of the test n == 0 that is off by one.
NoDataOffByOne(n) == n <= 1

\* if n == 0: raise StatisticsError
NoData(n) == n = 0

\* if k < pivot_index: [left, pivot_index-1] else: [pivot_index+1, right]
NextRange(l, r, kk, pivot_index) ==
    IF kk < pivot_index THEN <<l, pivot_index - 1>>
    ELSE <<pivot_index + 1, r>>

\* Entry of quickselect(l, lft, rgt, kk) up to the test left == right.
\* outer is TRUE for a call from outside quickselect.
EnterQuickselect(h, l, lft, rgt, kk, outer) ==
    LET qq == IF IsDeque(l) THEN l ELSE Construct("deque", l)
        h1 == IF IsDeque(l) THEN h ELSE CopyInto(h, qq, l)
    IN  /\ q' = qq
        /\ heap' = h1
        /\ left' = lft
        /\ right' = rgt
        /\ k' = kk
        /\ qsCalls' = qsCalls + 1
        /\ entry' = IF outer
                    THEN [q |-> h1[qq], left |-> lft, right |-> rgt, k |-> kk]
                    ELSE entry
        /\ depth' = IF outer THEN 0 ELSE depth + 1
        /\ pc' = "quickselect"

Init ==
    /\ \E s \in Lists : heap = [caller |-> s, list |-> <<>>, deque |-> <<>>]
    /\ saved = <<>>
    /\ mode = None
    /\ pc = "caller"
    /\ data = None
    /\ q = None
    /\ left = 0
    /\ right = 0
    /\ k = 0
    /\ callNo = 0
    /\ first = 0
    /\ retval = 0
    /\ result = None
    /\ outcome = None
    /\ prev = None
    /\ entry = NoEntry
    /\ depth = 0
    /\ part = NoPart
    /\ qsCalls = 0
    /\ partCalls = 0

----------------------------------------------------------------------------
\* The caller calls median(data) with its list: lines 42-47 or 42-50 up to
\* the first call of quickselect.
CallMedian ==
    /\ pc = "caller"
    /\ mode' = "median"
    /\ saved' = heap["caller"]
    /\ LET d == Construct("list", "caller")
           h1 == CopyInto(heap, d, "caller")
           n == Len(h1[d])
       IN  /\ data' = d
           /\ IF NoData(n)
              THEN /\ outcome' = "StatisticsError"
                   /\ pc' = "done"
                   /\ heap' = h1
                   /\ UNCHANGED <<q, left, right, k, callNo, entry, depth,
                                  qsCalls>>
              ELSE /\ outcome' = outcome
                   /\ callNo' = 1
                   /\ EnterQuickselect(h1, d, 0, n - 1,
                          IF n % 2 = 1 THEN n \div 2 ELSE (n \div 2) - 1,
                          TRUE)
    /\ UNCHANGED <<first, retval, result, prev, part, partCalls>>

\* The caller calls quickselect(l, lft, rgt, kk) with its list.
CallQuickselect ==
    /\ pc = "caller"
    /\ prev = None
    /\ Len(heap["caller"]) > 0
    /\ \E lft \in 0..(Len(heap["caller"]) - 1) :
       \E rgt \in lft..(Len(heap["caller"]) - 1) :
       \E kk \in (0 - 1)..Len(heap["caller"]) :
            EnterQuickselect(heap, "caller", lft, rgt, kk, TRUE)
    /\ mode' = "quickselect"
    /\ saved' = heap["caller"]
    /\ UNCHANGED <<data, callNo, first, retval, result, outcome, prev, part,
                   partCalls>>

\* The caller makes a deque of its list and calls
\* partition(q, lft, rgt, pivot_index) on it.
CallPartition ==
    /\ pc = "caller"
    /\ prev = None
    /\ Len(heap["caller"]) > 0
    /\ \E lft \in 0..(Len(heap["caller"]) - 1) :
       \E rgt \in lft..(Len(heap["caller"]) - 1) :
       \E pivot_index \in lft..rgt :
            LET p == Partition(heap["caller"], lft, rgt, pivot_index)
            IN  /\ heap' = [heap EXCEPT !["deque"] = p.q]
                /\ part' = [before |-> heap["caller"], after |-> p.q,
                            left |-> lft, right |-> rgt,
                            pivot_index |-> pivot_index, ret |-> p.ret]
                /\ left' = lft
                /\ right' = rgt
                /\ result' = Num(p.ret)
    /\ q' = "deque"
    /\ mode' = "partition"
    /\ saved' = heap["caller"]
    /\ partCalls' = partCalls + 1
    /\ outcome' = "returned"
    /\ pc' = "done"
    /\ UNCHANGED <<data, k, callNo, first, retval, prev, entry, depth,
                   qsCalls>>

\* One invocation of quickselect from the test left == right on (lines
\* 31-39); r is the value random.randint(left, right) returns, which
\* raises ValueError on an empty range.
Quickselect ==
    /\ pc = "quickselect"
    /\ IF left = right
       THEN /\ retval' = At(heap[q], left)
            /\ pc' = "return"
            /\ UNCHANGED <<heap, q, left, right, k, entry, depth, part,
                           qsCalls, partCalls, outcome>>
       ELSE IF left > right
       THEN /\ outcome' = "ValueError"
            /\ pc' = "done"
            /\ UNCHANGED <<heap, q, left, right, k, entry, depth, part,
                           qsCalls, partCalls, retval>>
       ELSE \E r \in left..right :
            LET p == Partition(heap[q], left, right, r)
                h1 == [heap EXCEPT ![q] = p.q]
                pivot_index == p.ret
                nr == NextRange(left, right, k, pivot_index)
            IN  /\ part' = [before |-> heap[q], after |-> p.q,
                            left |-> left, right |-> right,
                            pivot_index |-> r, ret |-> p.ret]
                /\ partCalls' = partCalls + 1
                /\ outcome' = outcome
                /\ IF k = pivot_index
                   THEN /\ retval' = At(p.q, k)
                        /\ pc' = "return"
                        /\ heap' = h1
                        /\ UNCHANGED <<q, left, right, k, entry, depth,
                                       qsCalls>>
                   ELSE /\ EnterQuickselect(h1, q, nr[1], nr[2], k, FALSE)
                        /\ retval' = retval
    /\ UNCHANGED <<saved, mode, data, callNo, first, result, prev>>

\* quickselect returns to median: line 47, or line 50 between and after
\* its two calls.
MedianResume ==
    /\ pc = "return"
    /\ mode = "median"
    /\ LET n == Len(heap[data])
           i == n \div 2
       IN  IF n % 2 = 1
           THEN /\ result' = Num(retval)
                /\ outcome' = "returned"
                /\ pc' = "done"
                /\ UNCHANGED <<heap, q, left, right, k, callNo, first, entry,
                               depth, qsCalls>>
           ELSE IF callNo = 1
           THEN /\ first' = retval
                /\ callNo' = 2
                /\ EnterQuickselect(heap, data, 0, n - 1, i, TRUE)
                /\ UNCHANGED <<result, outcome>>
           ELSE /\ result' = HalfSum(first, retval)
                /\ outcome' = "returned"
                /\ pc' = "done"
                /\ UNCHANGED <<heap, q, left, right, k, callNo, first, entry,
                               depth, qsCalls>>
    /\ UNCHANGED <<saved, mode, data, retval, prev, part, partCalls>>

\* quickselect returns to the caller that called it directly.
QuickselectReturn ==
    /\ pc = "return"
    /\ mode = "quickselect"
    /\ result' = Num(retval)
    /\ outcome' = "returned"
    /\ pc' = "done"
    /\ UNCHANGED <<heap, saved, mode, data, q, left, right, k, callNo, first,
                   retval, prev, entry, depth, part, qsCalls, partCalls>>

\* After median returned, the caller keeps the result, shuffles its list
\* (random.shuffle, any order including the same one) and is ready to call
\* again.
Shuffle ==
    /\ pc = "done"
    /\ mode = "median"
    /\ outcome = "returned"
    /\ prev = None
    /\ \E s \in Shuffles(heap["caller"]) :
            heap' = [caller |-> s, list |-> <<>>, deque |-> <<>>]
    /\ prev' = result
    /\ pc' = "caller"
    /\ saved' = <<>>
    /\ mode' = None
    /\ data' = None
    /\ q' = None
    /\ left' = 0
    /\ right' = 0
    /\ k' = 0
    /\ callNo' = 0
    /\ first' = 0
    /\ retval' = 0
    /\ result' = None
    /\ outcome' = None
    /\ entry' = NoEntry
    /\ depth' = 0
    /\ part' = NoPart
    /\ qsCalls' = 0
    /\ partCalls' = 0

Next ==
    \/ CallMedian
    \/ CallQuickselect
    \/ CallPartition
    \/ Quickselect
    \/ MedianResume
    \/ QuickselectReturn
    \/ Shuffle

Spec == Init /\ [][Next]_vars

\* A synchronous call runs to completion: an invocation of quickselect
\* that has been entered does execute.  Termination is checked as driven
\* by the caller that only calls quickselect, on lists of up to MaxSelectLen
\* elements.
SelectInit == Init /\ Len(heap["caller"]) <= MaxSelectLen

SelectNext ==
    \/ CallQuickselect
    \/ Quickselect
    \/ QuickselectReturn

SelectSpec == SelectInit /\ [][SelectNext]_vars /\ WF_vars(Quickselect)

----------------------------------------------------------------------------
\* Properties.

\* The middle value of sorted(s): the odd/even rule.
RefMedian(s) ==
    LET t == Sorted(s)
        n == Len(s)
    IN  IF n % 2 = 1 THEN Num(t[(n \div 2) + 1])
        ELSE HalfSum(t[n \div 2], t[(n \div 2) + 1])

\* The outermost quickselect call was entered with
\* 0 <= left <= k <= right < len(buffer).
EntryInRange ==
    /\ entry # NoEntry
    /\ 0 <= entry.left
    /\ entry.left <= entry.k
    /\ entry.k <= entry.right
    /\ entry.right < Len(entry.q)

MedianReturned == mode = "median" /\ pc = "done" /\ outcome = "returned"

\* C1: whenever median returns, for any pivot choices, its result is the
\* middle value of the sorted input: sorted(S)[n/2] for odd n and the mean
\* of sorted(S)[n/2 - 1] and sorted(S)[n/2] for even n.
C1_MedianIsMiddle == MedianReturned => result = RefMedian(saved)

\* C2: quickselect entered with 0 <= left <= k <= right < len(buffer)
\* returns the value that sorting buffer[left..right] in place would put at
\* index k.
C2_QuickselectRank ==
    (mode = "quickselect" /\ pc = "done" /\ outcome = "returned"
        /\ EntryInRange)
    => result = Num(Sorted(Slice(entry.q, entry.left, entry.right))
                        [entry.k - entry.left + 1])

\* C3: from the call of median until after it has returned or raised, the
\* caller's list holds the elements it held before the call, in the same
\* order.
C3_InputNotMutated == mode = "median" => heap["caller"] = saved

\* C3 witness: median has returned after rearranging its working buffer.
C3_Witness ==
    /\ MedianReturned
    /\ partCalls > 0
    /\ heap[q] # saved
    /\ heap["caller"] = saved

\* C4: median of a zero-length collection ends at once in StatisticsError
\* with no value and without any call of quickselect or partition; median
\* of a non-empty collection never ends in StatisticsError.
C4_EmptyInput ==
    mode = "median" =>
        /\ Len(saved) = 0 =>
              /\ pc = "done"
              /\ outcome = "StatisticsError"
              /\ result = None
              /\ qsCalls = 0
              /\ partCalls = 0
        /\ Len(saved) > 0 => outcome # "StatisticsError"

\* C4 witness: median was called on the empty list and has raised.
C4_Witness ==
    /\ mode = "median"
    /\ saved = <<>>
    /\ pc = "done"
    /\ outcome = "StatisticsError"

\* C5: median of a list and median of any shuffle of it (the same order
\* included) are equal, whatever the pivot choices of the two runs.
C5_OrderInvariance == (MedianReturned /\ prev # None) => result = prev

\* C6: quickselect entered with k outside [left, right] never returns a
\* value: it ends in an error.
C6_RankOutOfRange ==
    (mode = "quickselect" /\ entry # NoEntry
        /\ (entry.k < entry.left \/ entry.k > entry.right))
    => (pc # "return" /\ outcome # "returned")

\* C7: median of count >= 1 copies of one value x returns x.
C7_RepeatedValue ==
    (mode = "median" /\ pc = "done" /\ Len(saved) >= 1
        /\ \A i \in 1..Len(saved) : saved[i] = saved[1])
    => (outcome = "returned" /\ result = Num(saved[1]))

\* C7 witness: median of an even number of copies, more than two, has
\* returned after both selections partitioned.
C7_Witness ==
    /\ MedianReturned
    /\ Len(saved) >= 4
    /\ Len(saved) % 2 = 0
    /\ \A i \in 1..Len(saved) : saved[i] = saved[1]
    /\ callNo = 2
    /\ partCalls >= 2

\* C8: after partition(buffer, left, right, pivotIndex) returned s,
\* buffer[s] is the pivot value, every element in [left, s) is less than it
\* and every element in (s, right] is greater than or equal to it.
C8_PartitionPost ==
    part # NoPart =>
        LET pivot_value == At(part.before, part.pivot_index)
        IN  /\ At(part.after, part.ret) = pivot_value
            /\ \A i \in part.left..(part.ret - 1) :
                    At(part.after, i) < pivot_value
            /\ \A i \in (part.ret + 1)..part.right :
                    At(part.after, i) >= pivot_value

\* C9: if quickselect is entered with 0 <= left <= k <= right <
\* len(buffer), every invocation it leads to has 0 <= left <= k <= right <
\* len(buffer), and every index partition returns lies in [left, right].
C9_RangeInvariant ==
    EntryInRange =>
        /\ pc = "quickselect" =>
              /\ 0 <= left
              /\ left <= k
              /\ k <= right
              /\ right < Len(heap[q])
        /\ part # NoPart =>
              /\ part.left <= part.ret
              /\ part.ret <= part.right

\* C9 witness: a recursive invocation on a right half.
C9_Witness ==
    /\ EntryInRange
    /\ pc = "quickselect"
    /\ depth >= 2
    /\ left > entry.left
    /\ right < entry.right
    /\ left < right

\* C10: every recursive call of quickselect is on a range strictly shorter
\* than its caller's; entered with 0 <= left <= k <= right < len(buffer),
\* quickselect makes at most right - left recursive calls and returns.
C10_Termination ==
    /\ [][(pc = "quickselect" /\ pc' = "quickselect" /\ depth' = depth + 1)
            => (right' - left' < right - left)]_vars
    /\ [](EntryInRange => depth <= entry.right - entry.left)
    /\ ((pc = "quickselect" /\ EntryInRange) ~> (pc = "return"))

\* C10 witness: quickselect returned after as many recursive calls as its
\* range allows.
C10_Witness ==
    /\ EntryInRange
    /\ pc = "return"
    /\ entry.right - entry.left >= 2
    /\ depth = entry.right - entry.left

\* C11: partition(buffer, left, right, pivotIndex) leaves every element at
\* an index outside [left, right] as it was, and buffer[left..right] holds
\* the same values, as often, after the call as before it.
C11_PartitionFrame ==
    part # NoPart =>
        /\ Len(part.after) = Len(part.before)
        /\ \A i \in 0..(Len(part.before) - 1) :
                (i < part.left \/ i > part.right)
                    => At(part.after, i) = At(part.before, i)
        /\ SameElements(Slice(part.before, part.left, part.right),
                        Slice(part.after, part.left, part.right))

====
